---- MODULE Spec2Model ----
(***************************************************************************)
(* Agent Hub (src/main.py): registration, deletion, synchronous           *)
(* invocation, streamed invocation and health probing of remote agents,   *)
(* over one SQLite table of Agent rows (src/models.py).                    *)
(*                                                                         *)
(* Every HTTP request is one task.  A handler is cut into steps at its    *)
(* awaits that matter: the SELECT that resolves the row, the outbound     *)
(* HTTP call, and the commit.  Each task has its own AsyncSession         *)
(* (src/database.py get_db), so what it loaded at its SELECT is a private *)
(* snapshot until it commits.                                              *)
(***************************************************************************)
EXTENDS Integers, Sequences, FiniteSets, TLC

\* ------------------------------------------------------------------ bounds
NumTasks == 2
NumUsers == 2
MaxLines == 2
MaxId == 1
MaxClock == 5
MaxHeaders == 2

Tasks == 1..NumTasks
Users == 1..NumUsers

\* ------------------------------------------------------------------ URLs
\* A URL is a sequence of characters; "/" is the only one that matters.  The
\* URLs asked for: one agent with no, one and two trailing slashes, and another.
Urls == {<<"a">>, <<"a", "/">>, <<"a", "/", "/">>, <<"a", "a">>}

\* a strip of one trailing slash only
StripOne(s) ==
    IF Len(s) > 0 /\ s[Len(s)] = "/" THEN SubSeq(s, 1, Len(s) - 1) ELSE s

\* req.url.rstrip("/"): every trailing slash is removed
RECURSIVE Rstrip(_)
Rstrip(s) ==
    IF Len(s) > 0 /\ s[Len(s)] = "/" THEN Rstrip(SubSeq(s, 1, Len(s) - 1)) ELSE s

\* ------------------------------------------------------------------ rows
NoAgent ==
    [id |-> 0, url |-> <<>>, name |-> "null", description |-> "null",
     version |-> "null", skills |-> <<>>, provider |-> "null",
     documentation_url |-> "null", user_id |-> 0,
     registered_at |-> 0, last_health_check |-> 0, is_healthy |-> FALSE]

Max(S) == CHOOSE x \in S : \A y \in S : y <= x

\* INTEGER PRIMARY KEY of a SQLite table without AUTOINCREMENT: the new rowid
\* is one more than the largest rowid now in the table
NewId(rows) == IF rows = {} THEN 1 ELSE Max({r.id : r \in rows}) + 1

\* select(Agent).where(Agent.id == agent_id) ... scalar_one_or_none()
ById(rows, id) ==
    IF \E r \in rows : r.id = id THEN CHOOSE r \in rows : r.id = id ELSE NoAgent

\* select(Agent).where(Agent.url == url) ... scalar_one_or_none()
ExistingNone(rows, url) == {}
Existing(rows, url) == {r \in rows : r.url = url}

\* the UNIQUE constraint of agents.url, checked by the INSERT
UniqueViolationNever(rows, url) == FALSE
UniqueViolation(rows, url) == \E r \in rows : r.url = url

\* ------------------------------------------------------------------ HTTP
\* What an outbound call comes back with: a transport failure, a timeout
\* (both httpx.HTTPError), or a response with a status and a body.
Statuses == {200, 404}
StreamStatuses == {200, 201, 404, 500}
CardBodies == {"<html>", "[]", "{\"name\":\"Echo\"}"}

NoResp == [kind |-> "none", status |-> 0, body |-> ""]
Failures == {[kind |-> k, status |-> 0, body |-> ""] : k \in {"transport", "timeout"}}
Responses(statuses, bodies) ==
    {[kind |-> "response", status |-> s, body |-> b] : s \in statuses, b \in bodies}

\* httpx Response.is_success
Is2xx(status) == status >= 200 /\ status <= 299

\* resp.json(): the body parses as JSON or json.JSONDecodeError is raised
JsonParses(body) == body # "<html>" /\ body # "boom" /\ body # ""

\* the parsed document is a JSON object (a dict), not a list or a scalar
IsObject(body) == JsonParses(body) /\ body # "[]"

\* ------------------------------------------------------------------ cards
\* The JSON object a card body parses to.  A key the object does not have is
\* "absent"; the value of "skills" is absent, null or a list whose entries are
\* objects (obj) or not; the value of "provider" is absent, a string, a number
\* or an object with or without "organization".
NoSkills == [kind |-> "absent", items |-> <<>>]
NoProvider == [kind |-> "absent", value |-> "absent", organization |-> "absent"]
SkillEntry(id, name, description) ==
    [obj |-> TRUE, id |-> id, name |-> name, description |-> description]
NotAnObject == [obj |-> FALSE, id |-> "absent", name |-> "absent", description |-> "absent"]

EmptyCard ==
    [name |-> "absent", description |-> "absent", version |-> "absent",
     documentationUrl |-> "absent", skills |-> NoSkills, provider |-> NoProvider]

\* card bodies that exercise the projection of skills and provider
EchoSkillCard == "{\"name\":\"Echo\",\"skills\":[{\"id\":\"s1\",\"name\":\"echo\"}]}"
OrgCard == "{\"description\":\"d\",\"version\":\"1\",\"documentationUrl\":\"doc\",\"provider\":{\"organization\":\"Acme\"},\"skills\":[]}"
NoOrgCard == "{\"provider\":{}}"
StringProviderCard == "{\"provider\":\"Acme\"}"
NumberProviderCard == "{\"provider\":5}"
NullSkillsCard == "{\"skills\":null}"
StringSkillCard == "{\"skills\":[\"s1\"]}"

ProjectionBodies ==
    {EchoSkillCard, OrgCard, NoOrgCard, StringProviderCard, NumberProviderCard,
     NullSkillsCard, StringSkillCard}

\* json.loads of a body that is a JSON object
Card(body) ==
    CASE body = "{\"name\":\"Echo\"}" -> [EmptyCard EXCEPT !.name = "Echo"]
      [] body = EchoSkillCard ->
            [EmptyCard EXCEPT !.name = "Echo",
                 !.skills = [kind |-> "list",
                             items |-> <<SkillEntry("s1", "echo", "absent")>>]]
      [] body = OrgCard ->
            [EmptyCard EXCEPT !.description = "d", !.version = "1",
                 !.documentationUrl = "doc",
                 !.provider = [NoProvider EXCEPT !.kind = "object", !.organization = "Acme"],
                 !.skills = [kind |-> "list", items |-> <<>>]]
      [] body = NoOrgCard ->
            [EmptyCard EXCEPT !.provider = [NoProvider EXCEPT !.kind = "object"]]
      [] body = StringProviderCard ->
            [EmptyCard EXCEPT !.provider = [NoProvider EXCEPT !.kind = "string", !.value = "Acme"]]
      [] body = NumberProviderCard ->
            [EmptyCard EXCEPT !.provider = [NoProvider EXCEPT !.kind = "number", !.value = "5"]]
      [] body = NullSkillsCard ->
            [EmptyCard EXCEPT !.skills = [kind |-> "null", items |-> <<>>]]
      [] body = StringSkillCard ->
            [EmptyCard EXCEPT !.skills = [kind |-> "list", items |-> <<NotAnObject>>]]
      [] OTHER -> EmptyCard

\* dict.get(key): None for a key the object does not have
Get(value) == IF value = "absent" THEN "null" ELSE value

\* card.get("name")
CardName(body) == Get(Card(body).name)

\* lines 350-357: the exception the loop over card["skills"] raises, if any:
\* None is not iterable, and an entry that is not an object has no .get
SkillsError(card) ==
    IF card.skills.kind = "null" THEN "TypeError"
    ELSE IF \E i \in 1..Len(card.skills.items) : ~card.skills.items[i].obj
    THEN "AttributeError"
    ELSE "none"

\* lines 350-357: each entry becomes {id, name, description}
BuildSkills(card) ==
    [i \in 1..Len(card.skills.items) |->
        [id |-> Get(card.skills.items[i].id),
         name |-> Get(card.skills.items[i].name),
         description |-> Get(card.skills.items[i].description)]]

\* line 366: "organization" of a provider that is an object, else the value of
\* "provider" as it is (a number is stored in its text form by the TEXT column)
BuildProvider(card) ==
    IF card.provider.kind = "object" THEN Get(card.provider.organization)
    ELSE Get(card.provider.value)

\* The try block of register_agent: client.get, raise_for_status, resp.json()
FetchCardNoStatusCheck(resp) ==
    IF resp.kind # "response" THEN "HTTPError"
    ELSE IF ~JsonParses(resp.body) THEN "Invalid"
    ELSE "ok"
FetchCard(resp) ==
    IF resp.kind # "response" THEN "HTTPError"
    ELSE IF ~Is2xx(resp.status) THEN "HTTPError"
    ELSE IF ~JsonParses(resp.body) THEN "Invalid"
    ELSE "ok"

\* ------------------------------------------------------------------ state
VARIABLES
    agents,   \* the rows of table "agents"
    clock,    \* the latest value datetime.utcnow() has returned
    tasks,    \* the requests in flight, one per slot
    last      \* the answer given last: the operation and the result (url: the URL
              \* of a register request refused as a duplicate, as the caller sent it)

vars == <<agents, clock, tasks, last>>

Idle ==
    [op |-> "idle", pc |-> "idle", user |-> 0, url |-> <<>>, agent |-> NoAgent,
     events |-> <<>>, pending |-> <<>>]

NoResult == [code |-> 0, detail |-> "", response |-> ""]
\* the fields of an AgentTestRequest that become headers
NoRequest ==
    [openai_api_key |-> "null", openai_base_url |-> "null", openai_model |-> "null",
     tavily_api_key |-> "null", custom_headers |-> <<>>]

NoLast ==
    [op |-> "none", url |-> <<>>, result |-> NoResult, events |-> <<>>,
     request |-> NoRequest, headers |-> {}, listing |-> <<>>]

Result(code, detail) == [code |-> code, detail |-> detail, response |-> ""]

\* exceptions no handler catches: the framework answers 500
Unhandled == {"IntegrityError", "StaleDataError", "AttributeError"}

Init ==
    /\ agents = {}
    /\ clock = 0
    /\ tasks = [t \in Tasks |-> Idle]
    /\ last = NoLast

\* a new request is served in the lowest free slot
Free(t) == tasks[t].op = "idle" /\ \A s \in Tasks : s < t => tasks[s].op # "idle"

\* ------------------------------------------------------------------ headers
\* A header name is a sequence of characters; a dict of headers is a set of
\* <<name, value>> pairs with one pair for a name.
ContentType == <<"C", "o", "n", "t", "e", "n", "t", "-", "T", "y", "p", "e">>
Accept == <<"A", "c", "c", "e", "p", "t">>
OpenAIKey == <<"X", "-", "O", "p", "e", "n", "A", "I", "-", "A", "P", "I", "-", "K", "e", "y">>
OpenAIBaseUrl == <<"X", "-", "O", "p", "e", "n", "A", "I", "-", "B", "a", "s", "e", "-", "U", "R", "L">>
OpenAIModel == <<"X", "-", "O", "p", "e", "n", "A", "I", "-", "M", "o", "d", "e", "l">>
TavilyKey == <<"X", "-", "T", "a", "v", "i", "l", "y", "-", "A", "P", "I", "-", "K", "e", "y">>

\* the keys and values a request's custom_headers may hold
CustomKeys ==
    {<<"f", "o", "o">>, <<"X", "-", "f", "o", "o">>, <<"x", "-", "F", "o", "o">>,
     ContentType, Accept}
CustomValues == {"bar", "baz"}

\* str.lower() of one character
Lower(c) ==
    CASE c = "X" -> "x" [] c = "A" -> "a" [] c = "C" -> "c" [] c = "F" -> "f"
      [] c = "T" -> "t" [] OTHER -> c

\* a test that tells "X-" from "x-"
StartsWithXCaseSensitive(key) == Len(key) >= 2 /\ key[1] = "X" /\ key[2] = "-"

\* key.lower().startswith("x-")
StartsWithX(key) == Len(key) >= 2 /\ Lower(key[1]) = "x" /\ Lower(key[2]) = "-"

\* header_key = key if key.lower().startswith("x-") else f"X-{key}"
HeaderKey(key) == IF StartsWithX(key) THEN key ELSE <<"X", "-">> \o key

\* headers[name] = value
SetHeader(headers, name, value) ==
    {h \in headers : h[1] # name} \cup {<<name, value>>}

\* if req.<field>: headers[name] = req.<field>
SetIfGiven(headers, name, value) ==
    IF value = "null" THEN headers ELSE SetHeader(headers, name, value)

\* for key, value in req.custom_headers.items(): the entries in their order
RECURSIVE AddCustom(_, _)
AddCustom(headers, entries) ==
    IF entries = <<>> THEN headers
    ELSE AddCustom(SetHeader(headers, HeaderKey(Head(entries).key), Head(entries).value),
                   Tail(entries))

\* lines 428-441 and 496-508: base is the dict the handler starts from
BuildHeaders(base, req) ==
    AddCustom(
        SetIfGiven(
            SetIfGiven(
                SetIfGiven(
                    SetIfGiven(base, OpenAIKey, req.openai_api_key),
                    OpenAIBaseUrl, req.openai_base_url),
                OpenAIModel, req.openai_model),
            TavilyKey, req.tavily_api_key),
        req.custom_headers)

TestHeaders(req) == BuildHeaders({<<ContentType, "application/json">>}, req)
StreamHeaders(req) ==
    BuildHeaders({<<ContentType, "application/json">>,
                  <<Accept, "text/event-stream">>}, req)

\* the custom_headers of a request: up to n entries, no key twice
RECURSIVE CustomHeaders(_)
CustomHeaders(n) ==
    IF n = 0 THEN {<<>>}
    ELSE LET S == CustomHeaders(n - 1)
         IN  S \cup {Append(e, [key |-> k, value |-> v]) :
                        e \in {x \in S : Len(x) = n - 1},
                        k \in CustomKeys, v \in CustomValues}

DistinctKeys(entries) ==
    \A i, j \in 1..Len(entries) : entries[i].key = entries[j].key => i = j

\* the requests asked: the optional fields all given or all left out
Requests ==
    {[NoRequest EXCEPT !.custom_headers = e] :
        e \in {x \in CustomHeaders(MaxHeaders) : DistinctKeys(x)}}
    \cup
    {[openai_api_key |-> "sk", openai_base_url |-> "u", openai_model |-> "m",
      tavily_api_key |-> "tv", custom_headers |-> e] :
        e \in {x \in CustomHeaders(MaxHeaders) : DistinctKeys(x)}}

\* ------------------------------------------------------------------ register
\* register_agent up to its first outbound call: normalise, look the URL up
RegisterCheck(t, u, raw) ==
    /\ Free(t)
    /\ LET url == Rstrip(raw)
       IN  IF Existing(agents, url) # {}
           THEN /\ tasks' = tasks
                /\ last' = [NoLast EXCEPT !.op = "register", !.url = raw,
                               !.result = Result(400, "Agent already registered")]
                /\ UNCHANGED <<agents, clock>>
           ELSE /\ tasks' = [tasks EXCEPT ![t] =
                                [Idle EXCEPT !.op = "register", !.pc = "fetch",
                                             !.user = u, !.url = url]]
                /\ UNCHANGED <<agents, clock, last>>

\* the row register_agent builds from the card
NewAgent(rows, url, body, u, now) ==
    [id |-> NewId(rows), url |-> url, name |-> CardName(body),
     description |-> Get(Card(body).description),
     version |-> Get(Card(body).version),
     skills |-> BuildSkills(Card(body)),
     provider |-> BuildProvider(Card(body)),
     documentation_url |-> Get(Card(body).documentationUrl),
     user_id |-> u,
     registered_at |-> now + 2, last_health_check |-> now + 1, is_healthy |-> TRUE]

\* register_agent from the card fetch to the end
RegisterFetch(t, resp) ==
    /\ tasks[t].op = "register" /\ tasks[t].pc = "fetch"
    /\ tasks' = [tasks EXCEPT ![t] = Idle]
    /\ LET url == tasks[t].url
           done == [NoLast EXCEPT !.op = "register"]
       IN  CASE FetchCard(resp) = "HTTPError" ->
                    /\ last' = [done EXCEPT !.result =
                                   Result(400, "Failed to fetch agent card")]
                    /\ UNCHANGED <<agents, clock>>
             [] FetchCard(resp) = "Invalid" ->
                    /\ last' = [done EXCEPT !.result =
                                   Result(400, "Invalid agent card response")]
                    /\ UNCHANGED <<agents, clock>>
             [] FetchCard(resp) = "ok" /\ ~IsObject(resp.body) ->
                    /\ last' = [done EXCEPT !.result = Result(500, "AttributeError")]
                    /\ UNCHANGED <<agents, clock>>
             [] FetchCard(resp) = "ok" /\ IsObject(resp.body)
                    /\ SkillsError(Card(resp.body)) # "none" ->
                    /\ last' = [done EXCEPT !.result =
                                   Result(500, SkillsError(Card(resp.body)))]
                    /\ UNCHANGED <<agents, clock>>
             [] FetchCard(resp) = "ok" /\ IsObject(resp.body)
                    /\ SkillsError(Card(resp.body)) = "none"
                    /\ UniqueViolation(agents, url) ->
                    /\ last' = [done EXCEPT !.result = Result(500, "IntegrityError")]
                    /\ UNCHANGED <<agents, clock>>
             [] OTHER ->
                    /\ clock + 2 <= MaxClock
                    /\ agents' = agents \cup
                          {NewAgent(agents, url, resp.body, tasks[t].user, clock)}
                    /\ last' = [done EXCEPT !.result = Result(200, "registered")]
                    /\ clock' = clock + 2

\* ------------------------------------------------------------------ list
\* Table "users": one row for every user that can log in.  No handler deletes
\* a user.  With AUTH_REQUIRED off every caller is AnonymousUser, whose id 0
\* has no row.
Anonymous == 0
Username(id) == [name |-> "user", n |-> id]
Unknown == [name |-> "Unknown", n |-> 0]

\* users_map.get(a.user_id, "Unknown") over select(User).where(User.id.in_(...))
RegisteredBy(id) == IF id \in Users THEN Username(id) ELSE Unknown

\* the row with the smallest and the row with the largest registered_at
Oldest(rows) == CHOOSE r \in rows : \A o \in rows : r.registered_at <= o.registered_at
Newest(rows) == CHOOSE r \in rows : \A o \in rows : r.registered_at >= o.registered_at

\* select(Agent).order_by(Agent.registered_at) without .desc()
RECURSIVE OrderByRegisteredAtAsc(_)
OrderByRegisteredAtAsc(rows) ==
    IF rows = {} THEN <<>>
    ELSE <<Oldest(rows)>> \o OrderByRegisteredAtAsc(rows \ {Oldest(rows)})

\* select(Agent).order_by(Agent.registered_at.desc())
RECURSIVE OrderByRegisteredAtDesc(_)
OrderByRegisteredAtDesc(rows) ==
    IF rows = {} THEN <<>>
    ELSE <<Newest(rows)>> \o OrderByRegisteredAtDesc(rows \ {Newest(rows)})

\* AgentResponse(...) of a row (a.skills if a.skills else [] is a.skills)
AgentResponse(a) ==
    [id |-> a.id, url |-> a.url, name |-> a.name, description |-> a.description,
     version |-> a.version, skills |-> a.skills, provider |-> a.provider,
     documentation_url |-> a.documentation_url,
     registered_by |-> RegisteredBy(a.user_id),
     registered_at |-> a.registered_at, is_healthy |-> a.is_healthy]

\* list_agents: the rows as the first SELECT finds them
ListAgents(t) ==
    /\ Free(t)
    /\ last' = [NoLast EXCEPT !.op = "list", !.result = Result(200, "list"),
                   !.listing = [i \in 1..Cardinality(agents) |->
                                   AgentResponse(OrderByRegisteredAtDesc(agents)[i])]]
    /\ UNCHANGED <<agents, clock, tasks>>

\* ------------------------------------------------------------------ delete
\* delete_agent up to db.delete: resolve the row, check the owner
DeleteRead(t, u, id) ==
    /\ Free(t)
    /\ LET agent == ById(agents, id)
           done == [NoLast EXCEPT !.op = "delete"]
       IN  IF agent = NoAgent
           THEN /\ last' = [done EXCEPT !.result = Result(404, "Agent not found")]
                /\ UNCHANGED <<agents, clock, tasks>>
           ELSE IF agent.user_id # u
           THEN /\ last' = [done EXCEPT !.result =
                               Result(403, "Not authorized to delete this agent")]
                /\ UNCHANGED <<agents, clock, tasks>>
           ELSE /\ tasks' = [tasks EXCEPT ![t] =
                                [Idle EXCEPT !.op = "delete", !.pc = "commit",
                                             !.user = u, !.agent = agent]]
                /\ UNCHANGED <<agents, clock, last>>

\* DELETE FROM agents WHERE id = ?  (a row count of 0 is a warning, not an error)
DeleteRows(rows, id) == {r \in rows : r.id # id}

\* db.delete(agent); db.commit(); return {"status": "deleted"}
DeleteCommit(t) ==
    /\ tasks[t].op = "delete" /\ tasks[t].pc = "commit"
    /\ agents' = DeleteRows(agents, tasks[t].agent.id)
    /\ tasks' = [tasks EXCEPT ![t] = Idle]
    /\ last' = [NoLast EXCEPT !.op = "delete", !.result = Result(200, "deleted")]
    /\ UNCHANGED clock

\* ------------------------------------------------------------------ health
\* agent.is_healthy = flag; agent.last_health_check = datetime.utcnow();
\* await db.commit().  The session flushes one UPDATE ... WHERE id = ? that sets
\* the attributes whose value differs from the one this session loaded: a flag
\* assigned the value it was loaded with is not part of the UPDATE.
FlushEveryRow(rows, loaded, flag, now) ==
    {[r EXCEPT !.last_health_check = now, !.is_healthy = flag] : r \in rows}
Flush(rows, loaded, flag, now) ==
    {IF r.id = loaded.id
        THEN [r EXCEPT !.last_health_check = now,
                       !.is_healthy = IF flag # loaded.is_healthy THEN flag ELSE @]
        ELSE r : r \in rows}

\* the UPDATE matched no row: the flush raises StaleDataError
Stale(rows, loaded) == \A r \in rows : r.id # loaded.id

InvokeBodies == {"[]", "<html>"}

\* The try block of test_agent up to resp.json(): which except clause, if any
CallAgent(resp) ==
    IF resp.kind # "response" THEN "HTTPError"
    ELSE IF ~Is2xx(resp.status) THEN "HTTPError"
    ELSE IF ~JsonParses(resp.body) THEN "Exception"
    ELSE "ok"

\* test_agent up to its outbound call: resolve the row
InvokeRead(t, id) ==
    /\ Free(t)
    /\ LET agent == ById(agents, id)
       IN  IF agent = NoAgent
           THEN /\ last' = [NoLast EXCEPT !.op = "invoke",
                               !.result = Result(404, "Agent not found")]
                /\ UNCHANGED <<agents, clock, tasks>>
           ELSE /\ tasks' = [tasks EXCEPT ![t] =
                                [Idle EXCEPT !.op = "invoke", !.pc = "call",
                                             !.agent = agent]]
                /\ UNCHANGED <<agents, clock, last>>

\* the answer of test_agent in each branch
InvokeResult(outcome, body) ==
    CASE outcome = "ok" -> [code |-> 200, detail |-> "success", response |-> body]
      [] outcome = "HTTPError" -> Result(502, "Agent communication failed")
      [] OTHER -> Result(500, "Unexpected error")

\* test_agent from the answer of the remote agent to the end.  A commit that
\* raises in the try block lands in "except Exception", whose own commit raises
\* again; a commit that raises in an except clause is caught by nothing.
InvokeReply(t, resp) ==
    /\ tasks[t].op = "invoke" /\ tasks[t].pc = "call"
    /\ tasks' = [tasks EXCEPT ![t] = Idle]
    /\ LET outcome == CallAgent(resp)
           done == [NoLast EXCEPT !.op = "invoke"]
       IN  IF Stale(agents, tasks[t].agent)
           THEN /\ last' = [done EXCEPT !.result = Result(500, "StaleDataError")]
                /\ UNCHANGED <<agents, clock>>
           ELSE /\ clock + 1 <= MaxClock
                /\ agents' = Flush(agents, tasks[t].agent, outcome = "ok", clock + 1)
                /\ clock' = clock + 1
                /\ last' = [done EXCEPT !.result = InvokeResult(outcome, resp.body)]

\* check_agent_health up to its outbound call: resolve the row
ProbeRead(t, id) ==
    /\ Free(t)
    /\ LET agent == ById(agents, id)
       IN  IF agent = NoAgent
           THEN /\ last' = [NoLast EXCEPT !.op = "probe",
                               !.result = Result(404, "Agent not found")]
                /\ UNCHANGED <<agents, clock, tasks>>
           ELSE /\ tasks' = [tasks EXCEPT ![t] =
                                [Idle EXCEPT !.op = "probe", !.pc = "call",
                                             !.agent = agent]]
                /\ UNCHANGED <<agents, clock, last>>

\* The try block of check_agent_health: client.get, raise_for_status
ProbeOk(resp) == resp.kind = "response" /\ Is2xx(resp.status)

\* check_agent_health from the answer of the card endpoint to the end
ProbeReply(t, resp) ==
    /\ tasks[t].op = "probe" /\ tasks[t].pc = "call"
    /\ tasks' = [tasks EXCEPT ![t] = Idle]
    /\ LET done == [NoLast EXCEPT !.op = "probe"]
       IN  IF Stale(agents, tasks[t].agent)
           THEN /\ last' = [done EXCEPT !.result = Result(500, "StaleDataError")]
                /\ UNCHANGED <<agents, clock>>
           ELSE /\ clock + 1 <= MaxClock
                /\ agents' = Flush(agents, tasks[t].agent, ProbeOk(resp), clock + 1)
                /\ clock' = clock + 1
                /\ last' = [done EXCEPT !.result =
                               Result(200, IF ProbeOk(resp) THEN "healthy" ELSE "unhealthy")]

\* ------------------------------------------------------------------ stream
Lines == {"", "x"}

RECURSIVE LineSeqs(_)
LineSeqs(n) ==
    IF n = 0 THEN {<<>>}
    ELSE LET S == LineSeqs(n - 1)
         IN  S \cup {Append(s, l) : s \in {x \in S : Len(x) = n - 1}, l \in Lines}

\* the line sequences a remote stream may carry
StreamLines == LineSeqs(MaxLines)

StreamBodies == {"boom", "\\xff"}

\* the heads a streamed POST may be answered with
StreamResponses == Responses(StreamStatuses, StreamBodies)

\* error_text.decode(): the bytes are UTF-8 or UnicodeDecodeError is raised
Decodes(body) == body # "\\xff"

\* what event_generator yields: the text as its pieces, in order
DataEvent(line) ==
    [type |-> "data", text |-> IF line # "" THEN <<line, "\n">> ELSE <<"\n">>,
     status |-> 0]
StatusEvent(body, status) == [type |-> "status_code", text |-> <<body>>, status |-> status]
ErrorEvent(type) == [type |-> type, text |-> <<>>, status |-> 0]

\* resp.status_code != 200
NotOkOnly5xx(status) == status >= 500
NotOk(status) == status # 200

\* a handler that opens the stream without looking at what the SELECT found
StreamReadNoCheck(t, id) ==
    /\ Free(t)
    /\ tasks' = [tasks EXCEPT ![t] =
                    [Idle EXCEPT !.op = "stream", !.pc = "open",
                                 !.agent = ById(agents, id)]]
    /\ UNCHANGED <<agents, clock, last>>

\* stream_agent up to the StreamingResponse: resolve the row
StreamRead(t, id) ==
    /\ Free(t)
    /\ LET agent == ById(agents, id)
       IN  IF agent = NoAgent
           THEN /\ last' = [NoLast EXCEPT !.op = "stream",
                               !.result = Result(404, "Agent not found")]
                /\ UNCHANGED <<agents, clock, tasks>>
           ELSE /\ tasks' = [tasks EXCEPT ![t] =
                                [Idle EXCEPT !.op = "stream", !.pc = "open",
                                             !.agent = agent]]
                /\ UNCHANGED <<agents, clock, last>>

\* the stream is over: what the caller has received
StreamDone(t, events) ==
    /\ tasks' = [tasks EXCEPT ![t] = Idle]
    /\ last' = [NoLast EXCEPT !.op = "stream", !.result = Result(200, "stream"),
                              !.events = events]

\* event_generator from client.stream(...) to the first line: the connection
\* fails, or the response head arrives; of a response that is not 200 the body
\* is read (readable: the read did not break) and decoded
StreamOpen(t, resp, lines, readable) ==
    /\ tasks[t].op = "stream" /\ tasks[t].pc = "open"
    /\ UNCHANGED <<agents, clock>>
    /\ IF resp.kind # "response"
       THEN StreamDone(t, <<ErrorEvent("connection_error")>>)
       ELSE IF NotOk(resp.status)
       THEN StreamDone(t, IF ~readable THEN <<ErrorEvent("connection_error")>>
                          ELSE IF ~Decodes(resp.body)
                          THEN <<ErrorEvent("unexpected_error")>>
                          ELSE <<StatusEvent(resp.body, resp.status)>>)
       ELSE /\ tasks' = [tasks EXCEPT ![t].pc = "relay", ![t].pending = lines]
            /\ UNCHANGED last

\* one turn of "async for line in resp.aiter_lines()"
StreamRelay(t) ==
    /\ tasks[t].op = "stream" /\ tasks[t].pc = "relay"
    /\ tasks[t].pending # <<>>
    /\ tasks' = [tasks EXCEPT ![t].events = Append(@, DataEvent(Head(tasks[t].pending))),
                              ![t].pending = Tail(@)]
    /\ UNCHANGED <<agents, clock, last>>

\* the remote stream ends: the generator returns
StreamEnd(t) ==
    /\ tasks[t].op = "stream" /\ tasks[t].pc = "relay"
    /\ tasks[t].pending = <<>>
    /\ StreamDone(t, tasks[t].events)
    /\ UNCHANGED <<agents, clock>>

\* a relay that treats a broken stream as a health signal, as test_agent does
StreamBreakMarksUnhealthy(t) ==
    /\ tasks[t].op = "stream" /\ tasks[t].pc = "relay"
    /\ clock + 1 <= MaxClock
    /\ StreamDone(t, Append(tasks[t].events, ErrorEvent("connection_error")))
    /\ agents' = Flush(agents, tasks[t].agent, FALSE, clock + 1)
    /\ clock' = clock + 1

\* a relay that reports a broken connection and goes on with the next line
StreamBreakResumes(t) ==
    /\ tasks[t].op = "stream" /\ tasks[t].pc = "relay"
    /\ Len(tasks[t].events) <= MaxLines
    /\ tasks' = [tasks EXCEPT ![t].events = Append(@, ErrorEvent("connection_error"))]
    /\ UNCHANGED <<agents, clock, last>>

\* the connection breaks while lines are awaited: except httpx.HTTPError
StreamBreak(t) ==
    /\ tasks[t].op = "stream" /\ tasks[t].pc = "relay"
    /\ StreamDone(t, Append(tasks[t].events, ErrorEvent("connection_error")))
    /\ UNCHANGED <<agents, clock>>

\* The caller of a stream goes away while event_generator is suspended at an
\* await or a yield, its outbound connection open.
StreamDisconnect(t) ==
    /\ tasks[t].op = "stream" /\ tasks[t].pc \in {"open", "relay"}
    /\ tasks' = [tasks EXCEPT ![t].pc = "abandoned"]
    /\ UNCHANGED <<agents, clock, last>>

\* a generator that holds its client and response without "async with": the
\* generator is dropped and nothing closes the connection
StreamCancelLeaks(t) ==
    /\ tasks[t].op = "stream" /\ tasks[t].pc = "abandoned"
    /\ tasks' = [tasks EXCEPT ![t].pc = "orphaned"]
    /\ UNCHANGED <<agents, clock, last>>

\* The server ends the abandoned generator (CancelledError at its await, or
\* GeneratorExit at its yield): neither except clause catches it, nothing is
\* yielded, and the two "async with" blocks close the response and the client.
StreamCancel(t) ==
    /\ tasks[t].op = "stream" /\ tasks[t].pc = "abandoned"
    /\ tasks' = [tasks EXCEPT ![t] = Idle]
    /\ last' = [NoLast EXCEPT !.op = "stream", !.result = Result(200, "disconnected"),
                              !.events = tasks[t].events]
    /\ UNCHANGED <<agents, clock>>

Register ==
    \/ \E t \in Tasks, u \in Users, raw \in Urls : RegisterCheck(t, u, raw)
    \/ \E t \in Tasks, resp \in Failures \cup Responses(Statuses, CardBodies) :
            RegisterFetch(t, resp)

Delete ==
    \/ \E t \in Tasks, u \in Users, id \in 1..MaxId : DeleteRead(t, u, id)
    \/ \E t \in Tasks : DeleteCommit(t)

Invoke ==
    \/ \E t \in Tasks, id \in 1..MaxId : InvokeRead(t, id)
    \/ \E t \in Tasks, resp \in Failures \cup Responses(Statuses, InvokeBodies) :
            InvokeReply(t, resp)

Probe ==
    \/ \E t \in Tasks, id \in 1..MaxId : ProbeRead(t, id)
    \/ \E t \in Tasks, resp \in Failures \cup Responses(Statuses, CardBodies) :
            ProbeReply(t, resp)

Stream ==
    \/ \E t \in Tasks, id \in 1..MaxId : StreamRead(t, id)
    \/ \E t \in Tasks, resp \in Failures \cup StreamResponses,
          lines \in StreamLines, readable \in BOOLEAN :
            StreamOpen(t, resp, lines, readable)
    \/ \E t \in Tasks : StreamRelay(t)
    \/ \E t \in Tasks : StreamEnd(t)
    \/ \E t \in Tasks : StreamBreak(t)

Next == Register \/ Delete \/ Invoke \/ Probe \/ Stream

\* the whole service, from an empty table
Spec == Init /\ [][Next]_vars

\* registration and deletion alone
NextRegistry == Register \/ Delete
SpecRegistry == Init /\ [][NextRegistry]_vars

\* One agent has been registered by user 1 (the state RegisterFetch leaves when
\* it stores a card fetched for "a"); then only invocations and probes arrive,
InitRegistered ==
    /\ agents = {NewAgent({}, <<"a">>, "{\"name\":\"Echo\"}", 1, 0)}
    /\ clock = 2
    /\ tasks = [t \in Tasks |-> Idle]
    /\ last = NoLast

NextHealth == Invoke \/ Probe
SpecHealth == InitRegistered /\ [][NextHealth]_vars

\* or only streamed invocations
NextStream == Stream
SpecStream == InitRegistered /\ [][NextStream]_vars

\* registrations alone, of cards of every shape
RegisterCards ==
    \/ \E t \in Tasks, u \in Users, raw \in Urls : RegisterCheck(t, u, raw)
    \/ \E t \in Tasks,
          resp \in Failures \cup Responses(Statuses, CardBodies \cup ProjectionBodies) :
            RegisterFetch(t, resp)

NextCards == RegisterCards
SpecCards == Init /\ [][NextCards]_vars

\* The headers of the outbound request alone: a request has arrived for
\* test_agent ("invoke") or stream_agent ("stream") and its headers are built.
InitHeaders ==
    /\ agents = {}
    /\ clock = 0
    /\ tasks = [t \in Tasks |-> Idle]
    /\ \E req \in Requests, op \in {"invoke", "stream"} :
          last = [NoLast EXCEPT !.op = op, !.request = req]

InvokeHeaders ==
    /\ last.op = "invoke" /\ last.headers = {}
    /\ last' = [last EXCEPT !.headers = TestHeaders(last.request)]
    /\ UNCHANGED <<agents, clock, tasks>>

StreamingHeaders ==
    /\ last.op = "stream" /\ last.headers = {}
    /\ last' = [last EXCEPT !.headers = StreamHeaders(last.request)]
    /\ UNCHANGED <<agents, clock, tasks>>

NextHeaders == InvokeHeaders \/ StreamingHeaders
SpecHeaders == InitHeaders /\ [][NextHeaders]_vars

\* Registrations by users and, with AUTH_REQUIRED off, by the anonymous caller
\* (the database file outlives a restart with another setting), and listings.
RegisterAny ==
    \/ \E t \in Tasks, u \in Users \cup {Anonymous}, raw \in Urls :
            RegisterCheck(t, u, raw)
    \/ \E t \in Tasks, resp \in Failures \cup Responses(Statuses, CardBodies) :
            RegisterFetch(t, resp)

List == \E t \in Tasks : ListAgents(t)

NextList == RegisterAny \/ List
SpecList == Init /\ [][NextList]_vars

\* rows come and go while they are invoked and probed
NextLifecycle == Register \/ Delete \/ Invoke \/ Probe
SpecLifecycle == Init /\ [][NextLifecycle]_vars

\* a registered agent is invoked and streamed from while its row is deleted
NextResolve == Delete \/ Invoke \/ Stream
SpecResolve == InitRegistered /\ [][NextResolve]_vars

\* streamed invocations whose caller may go away; an abandoned generator is
\* ended by the server as soon as the event loop runs it again
Abandon ==
    \/ \E t \in Tasks : StreamDisconnect(t)
    \/ \E t \in Tasks : StreamCancel(t)

NextAbandon == Stream \/ Abandon
SpecAbandon ==
    /\ InitRegistered
    /\ [][NextAbandon]_vars
    /\ \A t \in Tasks : WF_vars(StreamCancel(t))

\* ================================================================== claims
\* c is raw without its trailing slashes
CanonicalOf(c, raw) ==
    /\ Len(c) <= Len(raw)
    /\ SubSeq(raw, 1, Len(c)) = c
    /\ \A i \in (Len(c) + 1)..Len(raw) : raw[i] = "/"
    /\ (c = <<>> \/ c[Len(c)] # "/")

Duplicate == Result(400, "Agent already registered")

\* C1: no two stored rows have the same canonical URL, whatever the
\* interleaving of the requests, two racing registrations of one URL included.
C1_UrlUnique ==
    \A r1, r2 \in agents :
        (\E k \in 0..Len(r1.url) :
            /\ CanonicalOf(SubSeq(r1.url, 1, k), r1.url)
            /\ CanonicalOf(SubSeq(r1.url, 1, k), r2.url)) => r1 = r2

\* two registrations of one URL both passed the existence check; the INSERT of
\* the second was refused by the UNIQUE constraint
C1_Witness ==
    /\ last.op = "register" /\ last.result.detail = "IntegrityError"
    /\ agents # {}

\* C2: a stored URL has no trailing slash and is the canonical form of the URL
\* asked for; once u or u + "/" is stored, a register of the other one is
\* refused as a duplicate and adds no row.
C2_SlashDedup ==
    [][\A t \in Tasks, usr \in Users, raw \in Urls :
         (tasks[t].op = "idle" /\ RegisterCheck(t, usr, raw)) =>
           /\ \A r \in agents' : r.url = <<>> \/ r.url[Len(r.url)] # "/"
           /\ tasks'[t].op = "register" => CanonicalOf(tasks'[t].url, raw)
           /\ \A u \in Urls, r \in agents :
                ( /\ raw \in {u, Append(u, "/")}
                  /\ CanonicalOf(r.url, u) \/ CanonicalOf(r.url, Append(u, "/")) )
                => /\ last'.result = Duplicate
                   /\ agents' = agents
                   /\ tasks' = tasks]_vars

\* u is stored, and a register of u + "/" has just been refused
C2_Witness ==
    /\ last.op = "register" /\ last.result = Duplicate
    /\ \E r \in agents : last.url = Append(r.url, "/")

\* C3: a register of a URL whose canonical form is stored is answered 400
\* "already registered" at the existence check, before any card fetch, and the
\* table is what it was.
C3_DuplicateRejected ==
    [][\A t \in Tasks, usr \in Users, raw \in Urls :
         ((\E r \in agents : CanonicalOf(r.url, raw)) /\ RegisterCheck(t, usr, raw))
           => /\ last'.op = "register" /\ last'.result = Duplicate
              /\ agents' = agents
              /\ tasks'[t].pc # "fetch"]_vars

\* the very URL that is stored has been asked for again and refused
C3_Witness ==
    /\ last.op = "register" /\ last.result = Duplicate
    /\ \E r \in agents : last.url = r.url

\* the card fetch fails: transport error, timeout, a status that is not 2xx,
\* or a body that is not JSON
CardFetchFails(resp) ==
    \/ resp.kind \in {"transport", "timeout"}
    \/ resp.kind = "response" /\ (resp.status < 200 \/ resp.status > 299)
    \/ resp.kind = "response" /\ ~JsonParses(resp.body)

\* C4: when the card fetch fails, register answers 400 and the table is
\* unchanged.
C4_FetchFailureNoRecord ==
    [][\A t \in Tasks, resp \in Failures \cup Responses(Statuses, CardBodies) :
         (CardFetchFails(resp) /\ tasks[t].pc = "fetch" /\ RegisterFetch(t, resp))
           => /\ last'.op = "register" /\ last'.result.code = 400
              /\ last'.result.detail \in {"Failed to fetch agent card",
                                          "Invalid agent card response"}
              /\ agents' = agents]_vars

\* both kinds of failure are answered: this one is the unparsable body
C4_Witness ==
    /\ last.op = "register"
    /\ last.result = Result(400, "Invalid agent card response")

\* C8: a delete by someone who is not the owner is answered 403, a delete of
\* an id without a row 404, and neither changes the table; a row leaves the
\* table only in the commit of a delete asked by the owner of that row.
C8_DeleteOnlyByOwner ==
    [][/\ \A t \in Tasks, u \in Users, id \in 1..MaxId :
            DeleteRead(t, u, id) =>
              /\ (\E r \in agents : r.id = id /\ r.user_id # u)
                   => last'.result.code = 403 /\ agents' = agents /\ tasks' = tasks
              /\ (\A r \in agents : r.id # id)
                   => last'.result.code = 404 /\ agents' = agents /\ tasks' = tasks
       /\ \A r \in agents \ agents' :
            \E t \in Tasks : DeleteCommit(t) /\ tasks[t].user = r.user_id]_vars

\* a delete has just been refused with 403 and the row is still there
C8_Witness ==
    /\ last.op = "delete" /\ last.result.code = 403
    /\ agents # {}

\* C9: of two interleaved deletes of one row by its owner, the one that commits
\* second finds the row gone and is answered 404.
C9_SecondDeleteNotFound ==
    [][\A t \in Tasks :
         (DeleteCommit(t) /\ tasks[t].agent \notin agents)
           => last'.result.code = 404 /\ agents' = agents]_vars

HealthResponses == Failures \cup Responses(Statuses, InvokeBodies \cup CardBodies)

\* C5: the step of an invocation or a probe that writes the health state
\* leaves, in the row, the flag and the timestamp of that one operation: a
\* changed flag comes with a changed timestamp, and the pair stored is the
\* flag this operation reports with the time of this operation.
C5_HealthPairFromOneOperation ==
    [][\A t \in Tasks, resp \in HealthResponses :
         (InvokeReply(t, resp) \/ ProbeReply(t, resp)) =>
           \A r \in agents, w \in agents' :
             (r.id = w.id /\ r # w) =>
               /\ r.is_healthy # w.is_healthy
                    => r.last_health_check # w.last_health_check
               /\ w.last_health_check = clock'
               /\ w.is_healthy = (last'.result.detail \in {"success", "healthy"})]_vars

\* C6: a 2xx answer to a synchronous invocation, whatever its body, leaves the
\* row healthy with a new last-health-check and is reported as success.
C6_SuccessSetsHealthy ==
    [][\A t \in Tasks, resp \in Responses(Statuses, InvokeBodies) :
         (InvokeReply(t, resp) /\ resp.status >= 200 /\ resp.status <= 299)
           => /\ last'.result.code = 200 /\ last'.result.detail = "success"
              /\ \E w \in agents' :
                   /\ w.id = tasks[t].agent.id
                   /\ w.is_healthy
                   /\ w.last_health_check = clock' /\ clock' > clock]_vars

\* C7: a failed outbound call of a synchronous invocation leaves the row
\* unhealthy with a new last-health-check; it is answered 502 when the failure
\* is a transport error, a timeout or a status that is not 2xx, and 500 when
\* it is anything else.
C7_FailureSetsUnhealthy ==
    [][\A t \in Tasks, resp \in Failures \cup Responses(Statuses, InvokeBodies) :
         (InvokeReply(t, resp) /\ last'.result.detail # "success")
           => /\ last'.result.code =
                   IF resp.kind # "response" \/ resp.status < 200 \/ resp.status > 299
                   THEN 502 ELSE 500
              /\ \E w \in agents' :
                   /\ w.id = tasks[t].agent.id
                   /\ ~w.is_healthy
                   /\ w.last_health_check = clock' /\ clock' > clock]_vars

RelayOf(task) ==
    task.events \o [i \in 1..Len(task.pending) |-> DataEvent(task.pending[i])]

\* C11: a streamed POST answered with a 2xx status is relayed: no status_code
\* event is made of it, each turn of the relay outputs the next remote line (a
\* non-empty line and a terminator, an empty line as a terminator alone) and
\* leaves the rest in order, and the stream that ends has given one output per
\* remote line, none dropped, doubled, reordered or merged.
C11_2xxRelaysLines ==
    [][/\ \A t \in Tasks, resp \in StreamResponses, lines \in StreamLines :
            ( /\ resp.status >= 200 /\ resp.status <= 299
              /\ tasks[t].pc = "open"
              /\ StreamOpen(t, resp, lines, TRUE) )
              => /\ tasks'[t].pc = "relay"
                 /\ tasks'[t].events = <<>>
                 /\ tasks'[t].pending = lines
                 /\ last' = last
       /\ \A t \in Tasks :
            StreamRelay(t)
              => /\ RelayOf(tasks'[t]) = RelayOf(tasks[t])
                 /\ Len(tasks'[t].events) = Len(tasks[t].events) + 1
                 /\ tasks'[t].events[Len(tasks'[t].events)].text =
                      (IF Head(tasks[t].pending) = "" THEN <<"\n">>
                       ELSE <<Head(tasks[t].pending), "\n">>)
       /\ \A t \in Tasks :
            StreamEnd(t)
              => /\ last'.events = RelayOf(tasks[t])
                 /\ \A i \in 1..Len(last'.events) :
                      last'.events[i].type = "data"]_vars

\* C12: no step of a streamed invocation writes to the table, whatever its
\* outcome (404, a status event, a connection error before or during the
\* relay, an unexpected error, a stream relayed to its end): the rows, the
\* health flag and last-health-check of the target among them, are after the
\* step what they were before.
C12_StreamKeepsStore ==
    [][\A t \in Tasks :
         ( \/ tasks[t].op = "stream" /\ tasks'[t] # tasks[t]
           \/ tasks[t].op = "idle" /\ tasks'[t].op = "stream"
           \/ last'.op = "stream" /\ last' # last )
           => agents' = agents]_vars

\* a stream that broke after a line was relayed has ended, and the row is the
\* one that was registered
C12_Witness ==
    /\ last.op = "stream" /\ Len(last.events) = 2
    /\ last.events[1].type = "data"
    /\ last.events[2].type = "connection_error"
    /\ agents = {NewAgent({}, <<"a">>, "{\"name\":\"Echo\"}", 1, 0)}

\* C13: whatever the id (stored, never stored, deleted while the probe waits
\* for the card endpoint) and whatever the card endpoint does, a probe is
\* answered with the status "healthy" or "unhealthy", never with an error.
C13_ProbeNeverErrors ==
    last.op = "probe" =>
        /\ last.result.code = 200
        /\ last.result.detail \in {"healthy", "unhealthy"}

\* C14: a probe judges the answer of the card endpoint as the card fetch of
\* register does: it reports "healthy" and stores the flag true exactly when
\* that fetch would succeed (a 2xx status and a body that parses as JSON),
\* "unhealthy" and false otherwise, with a new last-health-check either way.
C14_ProbeJudgesAsFetch ==
    [][\A t \in Tasks, resp \in Failures \cup Responses(Statuses, CardBodies) :
         ( /\ tasks[t].op = "probe" /\ tasks[t].pc = "call"
           /\ ~Stale(agents, tasks[t].agent)
           /\ ProbeReply(t, resp) )
           => /\ last'.result.detail =
                   (IF FetchCard(resp) = "ok" THEN "healthy" ELSE "unhealthy")
              /\ \E w \in agents' :
                   /\ w.id = tasks[t].agent.id
                   /\ w.is_healthy = (FetchCard(resp) = "ok")
                   /\ w.last_health_check = clock' /\ clock' > clock]_vars

\* r is a, but for the health flag and last-health-check
SameButHealth(r, a) ==
    [r EXCEPT !.is_healthy = a.is_healthy,
              !.last_health_check = a.last_health_check] = a

\* C15: a step of an invocation or a probe whose target row is stored changes
\* nothing but the health flag and last-health-check of that row: its owner,
\* URL, name, description, version, skills, provider, documentation URL and
\* registration time stay what register stored, every other row stays as it
\* is, and no row is added or removed.
C15_OnlyHealthFieldsChange ==
    [][\A t \in Tasks :
         /\ ( /\ tasks[t].op = "idle"
              /\ tasks'[t].op \in {"invoke", "probe"} ) => agents' = agents
         /\ ( /\ tasks[t].op \in {"invoke", "probe"}
              /\ tasks'[t] # tasks[t]
              /\ \E r \in agents : SameButHealth(r, tasks[t].agent) )
              => /\ Cardinality(agents') = Cardinality(agents)
                 /\ \A r \in agents :
                      IF SameButHealth(r, tasks[t].agent)
                      THEN \E w \in agents' : SameButHealth(w, r)
                      ELSE r \in agents']_vars

\* of two stored rows the first has just been found unhealthy by an invocation
\* or a probe, and the second is as it was registered
C15_Witness ==
    /\ last.op \in {"invoke", "probe"}
    /\ last.result.detail \in {"Agent communication failed", "unhealthy"}
    /\ \E r1, r2 \in agents :
         /\ r1.id = 1 /\ ~r1.is_healthy /\ r1.last_health_check = clock
         /\ r2.id = 2 /\ r2.is_healthy /\ r2.last_health_check < r2.registered_at

\* the name the claim gives the header of a custom entry
ClaimedName(key) ==
    IF Len(key) >= 2 /\ key[1] \in {"x", "X"} /\ key[2] = "-" THEN key
    ELSE <<"X", "-">> \o key

\* Content-Type, and Accept of a streamed request, are what the handler set
FixedHeadersKept ==
    /\ <<ContentType, "application/json">> \in last.headers
    /\ \A h \in last.headers : h[1] = ContentType => h[2] = "application/json"
    /\ last.op = "stream" =>
         /\ <<Accept, "text/event-stream">> \in last.headers
         /\ \A h \in last.headers : h[1] = Accept => h[2] = "text/event-stream"

\* C16 as claimed: the outbound request of invoke and of invokeStreaming
\* carries, for every custom entry, a header with the claimed name and the
\* value of the entry, and Content-Type and Accept are not replaced.
C16_EveryCustomHeaderSent ==
    last.headers # {} =>
        /\ \A i \in 1..Len(last.request.custom_headers) :
             <<ClaimedName(last.request.custom_headers[i].key),
               last.request.custom_headers[i].value>> \in last.headers
        /\ FixedHeadersKept

\* C16 as amended: the same for every custom entry that no later entry of the
\* request maps to the same header name; of entries that map to one name the
\* last one is sent.
C16_LastCustomHeaderSent ==
    last.headers # {} =>
        /\ \A i \in 1..Len(last.request.custom_headers) :
             (\A j \in (i + 1)..Len(last.request.custom_headers) :
                 ClaimedName(last.request.custom_headers[j].key)
                   # ClaimedName(last.request.custom_headers[i].key))
             => <<ClaimedName(last.request.custom_headers[i].key),
                  last.request.custom_headers[i].value>> \in last.headers
        /\ \A h1, h2 \in last.headers : h1[1] = h2[1] => h1 = h2
        /\ FixedHeadersKept

\* "foo": "bar" has been sent as X-foo: bar and "x-Foo": "baz" as x-Foo: baz,
\* in a streamed request
C16_Witness ==
    /\ last.op = "stream"
    /\ last.request.custom_headers =
         << [key |-> <<"f", "o", "o">>, value |-> "bar"],
            [key |-> <<"x", "-", "F", "o", "o">>, value |-> "baz"] >>
    /\ <<<<"X", "-", "f", "o", "o">>, "bar">> \in last.headers
    /\ <<<<"x", "-", "F", "o", "o">>, "baz">> \in last.headers

\* the projection of a card the claim describes: a missing field is null
ClaimedSkills(card) ==
    [i \in 1..Len(card.skills.items) |->
        [id |-> IF card.skills.items[i].id = "absent" THEN "null"
                ELSE card.skills.items[i].id,
         name |-> IF card.skills.items[i].name = "absent" THEN "null"
                  ELSE card.skills.items[i].name,
         description |-> IF card.skills.items[i].description = "absent" THEN "null"
                         ELSE card.skills.items[i].description]]

ClaimedProvider(card) ==
    CASE card.provider.kind = "object" /\ card.provider.organization # "absent"
             -> card.provider.organization
      [] card.provider.kind = "string" -> card.provider.value
      [] OTHER -> "null"

CardResponses == Failures \cup Responses(Statuses, CardBodies \cup ProjectionBodies)

\* C17: a register that succeeds adds exactly one row: its owner is the caller,
\* it is healthy, its last-health-check is set, its URL is the canonical URL
\* asked for, and its skills and provider are the projection of the card (one
\* {id, name, description} triple per skill with null for a missing field; the
\* organization of a provider object, a provider string itself, else nothing).
C17_RegisterProjectsCard ==
    [][\A t \in Tasks, resp \in CardResponses :
         ( /\ tasks[t].pc = "fetch"
           /\ RegisterFetch(t, resp)
           /\ last'.result.detail = "registered" )
           => \E w \in agents' :
                /\ w \notin agents
                /\ agents' = agents \cup {w}
                /\ w.url = tasks[t].url
                /\ w.user_id = tasks[t].user
                /\ w.is_healthy
                /\ w.last_health_check > clock
                /\ w.skills = ClaimedSkills(Card(resp.body))
                /\ w.provider = ClaimedProvider(Card(resp.body))]_vars

\* C18: whatever the card endpoint answers (a failure, any status, a body that
\* is not JSON, JSON that is not an object, "skills" that is null or holds
\* entries that are not objects), a register that is not beaten to its URL by
\* another one ends with a stored row or with a 400 and no row.
C18_RegisterNeverCrashes ==
    [][\A t \in Tasks, resp \in CardResponses :
         ( /\ tasks[t].pc = "fetch"
           /\ ~UniqueViolation(agents, tasks[t].url)
           /\ RegisterFetch(t, resp) )
           => \/ /\ last'.result.code = 200
                 /\ \E w \in agents' : w.url = tasks[t].url
              \/ /\ last'.result.code = 400
                 /\ agents' = agents]_vars

\* C19: a listing holds every stored row exactly once, the newest registration
\* first, each with the display name of its owner, "Unknown" for an owner
\* that has no user row; such a row neither fails the listing nor hides others.
C19_ListNewestFirst ==
    [][\A t \in Tasks :
         ListAgents(t) =>
           /\ last'.result.code = 200
           /\ Len(last'.listing) = Cardinality(agents)
           /\ \A r \in agents :
                \E i \in 1..Len(last'.listing) :
                  /\ last'.listing[i].id = r.id
                  /\ last'.listing[i].url = r.url
                  /\ last'.listing[i].name = r.name
                  /\ last'.listing[i].is_healthy = r.is_healthy
                  /\ last'.listing[i].registered_by =
                       (IF r.user_id \in Users THEN [name |-> "user", n |-> r.user_id]
                        ELSE [name |-> "Unknown", n |-> 0])
                  /\ \A j \in 1..Len(last'.listing) :
                       last'.listing[j].id = r.id => j = i
           /\ \A i, j \in 1..Len(last'.listing) :
                i < j => last'.listing[i].registered_at >= last'.listing[j].registered_at]_vars

\* two rows are listed: the newer one, registered by the anonymous caller, as
\* "Unknown" first, then the older one with the name of user 1
C19_Witness ==
    /\ last.op = "list" /\ Len(last.listing) = 2
    /\ last.listing[1].registered_by = [name |-> "Unknown", n |-> 0]
    /\ last.listing[2].registered_by = [name |-> "user", n |-> 1]
    /\ last.listing[1].registered_at > last.listing[2].registered_at

\* an event that is not a relayed line
IsErrorEvent(e) == e.type \in {"status_code", "connection_error", "unexpected_error"}

\* C20: a stream holds at most one error event and nothing after it.  A
\* connection that fails before the first line gives that one event alone; one
\* that fails after some lines leaves the lines as they were relayed and adds
\* the one event; then the stream is over.
C20_OneErrorEventLast ==
    [][/\ \A t \in Tasks : \A i \in 1..Len(tasks'[t].events) :
            ~IsErrorEvent(tasks'[t].events[i])
       /\ last'.op = "stream" =>
            \A i \in 1..Len(last'.events) :
               IsErrorEvent(last'.events[i]) => i = Len(last'.events)
       /\ \A t \in Tasks :
            StreamBreak(t) =>
              /\ last'.events =
                   Append(tasks[t].events,
                          [type |-> "connection_error", text |-> <<>>, status |-> 0])
              /\ tasks'[t] = Idle
       /\ \A t \in Tasks, resp \in Failures :
            (tasks[t].pc = "open" /\ StreamOpen(t, resp, <<>>, TRUE)) =>
              /\ last'.events =
                   <<[type |-> "connection_error", text |-> <<>>, status |-> 0]>>
              /\ tasks'[t] = Idle
       /\ \A t \in Tasks, resp \in StreamResponses :
            ( /\ tasks[t].pc = "open" /\ resp.status # 200 /\ ~Decodes(resp.body)
              /\ StreamOpen(t, resp, <<>>, TRUE) ) =>
              /\ last'.events =
                   <<[type |-> "unexpected_error", text |-> <<>>, status |-> 0]>>
              /\ tasks'[t] = Idle]_vars

\* two lines were relayed, then the connection broke: the stream ended with
\* the two lines and one connection_error after them
C20_Witness ==
    /\ last.op = "stream" /\ Len(last.events) = 3
    /\ last.events[1].type = "data" /\ last.events[2].type = "data"
    /\ last.events[3].type = "connection_error"

\* C21: an invocation or a streamed invocation of an id that has no row is
\* answered 404 at the SELECT: no task goes on to an outbound call or an open
\* stream, and the table is what it was.
C21_NotFoundBeforeOutbound ==
    [][\A t \in Tasks, id \in 1..MaxId :
         /\ ((\A r \in agents : r.id # id) /\ InvokeRead(t, id))
              => /\ last'.op = "invoke" /\ last'.result.code = 404
                 /\ tasks' = tasks
                 /\ agents' = agents
         /\ ((\A r \in agents : r.id # id) /\ StreamRead(t, id))
              => /\ last'.op = "stream" /\ last'.result.code = 404
                 /\ last'.events = <<>>
                 /\ tasks' = tasks
                 /\ agents' = agents]_vars

\* the row has been deleted and a streamed invocation of its id has been
\* answered 404, with no request in flight
C21_Witness ==
    /\ agents = {}
    /\ last.op = "stream" /\ last.result.code = 404
    /\ \A t \in Tasks : tasks[t] = Idle

\* the outbound connection of the stream in slot t is open
ConnectionOpen(t) == tasks[t].op = "stream"

\* C22: once the caller of a stream has gone away, the outbound connection of
\* that stream is eventually closed, and until then nothing more is relayed:
\* the events of the stream stay what the caller had received.
C22_AbandonedStreamCloses ==
    /\ \A t \in Tasks : (tasks[t].pc = "abandoned") ~> ~ConnectionOpen(t)
    /\ [][\A t \in Tasks :
            tasks[t].pc = "abandoned" =>
              /\ tasks'[t].events = tasks[t].events \/ tasks'[t] = Idle
              /\ (last' # last /\ tasks'[t] # tasks[t])
                   => last'.events = tasks[t].events]_vars

\* a caller that had received one line went away, and the stream was closed
\* with nothing more relayed
C22_Witness ==
    /\ last.op = "stream" /\ last.result.detail = "disconnected"
    /\ Len(last.events) = 1 /\ last.events[1].type = "data"
    /\ \A t \in Tasks : ~ConnectionOpen(t)

\* C23: the late health write of an invocation or a probe whose row was
\* deleted while it waited for its outbound call changes nothing in the
\* table: the row is not created again and no other row is altered.
C23_DeletedStaysDeleted ==
    [][\A t \in Tasks :
         ( /\ tasks[t].op \in {"invoke", "probe"} /\ tasks[t].pc = "call"
           /\ tasks'[t] = Idle
           /\ ~ \E r \in agents : SameButHealth(r, tasks[t].agent) )
           => agents' = agents]_vars

====
